---- MODULE Spec2Model ----
(***************************************************************************)
(* vmctrld.py: a control loop reads command lines and schedules unit       *)
(* actions on a Daemon, whose single worker thread executes them.          *)
(*                                                                         *)
(* Tokens of a command line are integers: unit u has vmid u and name -u,   *)
(* and 0 is a token that names no unit.  Names of saved states are strings *)
(* (sname is args[0] of a save or load line).                              *)
(*                                                                         *)
(* A step of the control loop is what it does between two acquisitions of *)
(* the queue lock: reading a line and planning it (enumeration and sort)   *)
(* is one step, each try_cancel and each add is one.  In Spec every unit   *)
(* is stopped when the daemon starts; SpecUnit has every status.           *)
(*                                                                         *)
(* Four specifications share the definitions:                              *)
(*   Spec      the control loop and the worker thread, interleaved;        *)
(*   SpecLive  the same steps under fair scheduling of the worker and of   *)
(*             abort, from the state after a first line that did nothing;  *)
(*   SpecUnit  the worker running one action on one unit, for every        *)
(*             command, kind and cached status;                            *)
(*   SpecPlan  the planner on every input list and configuration.          *)
(***************************************************************************)
EXTENDS Integers, Sequences, FiniteSets, TLC

\* ---------------------------------------------------------------- bounds
\* units the external programs list
NumUnits == 3
\* unit identifiers on one command line
MaxArgs == 2
\* command lines read before end of input
MaxLines == 3
\* unit identifiers of a planner input (SpecPlan)
MaxPlanArgs == 3
\* largest start-up delay a unit declares
MaxUp == 1

\* ------------------------------------------------------- program constants
Status_UNKNOWN == -1
Status_STOPPED == 0
Status_RUNNING == 1
Status_PAUSED == 2

Cmd_UNKNOWN == -1
Cmd_START == 0
Cmd_SHUTDOWN == 1
Cmd_RESUME == 2
Cmd_SUSPEND == 3
Cmd_HIBERNATE == 4
Cmd_STOP == 5

\* 2**10000 in the source: larger than every order a unit declares
InfiniteOrder == 1073741824

DRY == FALSE

str_status == [stopped |-> Status_STOPPED, running |-> Status_RUNNING, paused |-> Status_PAUSED]

str_cmd == [start |-> Cmd_START, shutdown |-> Cmd_SHUTDOWN, resume |-> Cmd_RESUME,
            suspend |-> Cmd_SUSPEND, hibernate |-> Cmd_HIBERNATE, stop |-> Cmd_STOP]

VARIABLES
    real,      \* external world: the status token the control program reports per unit
    config,    \* external world: the configuration the control program reports per unit
    queue,     \* Daemon.__queue
    run,       \* Daemon.__run
    event,     \* Daemon.__sleep.__event
    lock,      \* Daemon.__lock: the thread that holds it, or "free"
    notified,  \* Daemon.__lock: a notify has reached the worker waiting on the condition
    wpc,       \* worker thread: position in Daemon.run
    action,    \* worker thread: the action returned by get()
    proc,      \* worker thread: the external command being waited for
    timeout,   \* worker thread: time left of the Event.wait in progress
    ctl,       \* control loop: position in main
    cmd,       \* main: cmd of the line being dispatched
    vms,       \* planner: the list virtual_prepare_* is called with (SpecPlan)
    sname,     \* main: args[0] of a save or load line
    plan,      \* main: units the for loop has not reached yet
    states,    \* main: states
    state,     \* main: state
    l,         \* main: whether the name l of the list branch is bound
    printed,   \* main: what the dispatch of the line printed last
    found,     \* per unit of the line, what try_cancel met in the queue
    added,     \* vmids of the actions Daemon.add appended for the line
    nlines     \* lines read

vars == <<real, config, queue, run, event, lock, notified, wpc, action, proc, timeout, ctl, cmd, vms,
          sname, plan, states, state, l, printed, found, added, nlines>>

envVars == <<real, config>>
workerVars == <<wpc, action, proc, timeout>>
daemonVars == <<queue, run, event, lock, notified>>
lineVars == <<cmd, vms, sname, plan, state, l, printed, found, added, nlines>>

\* ------------------------------------------------------------ environment
Units == 1..NumUnits

\* the control program that lists unit u: containers have odd ids here
Prgm(u) == IF u % 2 = 1 THEN "pct" ELSE "qm"

Name(u) == 0 - u

StatusTokens == {"stopped", "running", "paused", "other"}

StateNames == {"x", "y"}

\* tokens a command line may hold: vmids, one name, one token naming nothing
Tokens == Units \cup {Name(1), 0}

\* the command words the lines of Spec use; SpecUnit runs all six
LineCmds == {"start", "shutdown", "stop"}

\* str_to_dict(config["startup"]) of the units of Spec: A:10, B:2, C:<none>
InventoryStartup(u) ==
    CASE u % 3 = 1 -> [order |-> 10, up |-> MaxUp]
      [] u % 3 = 2 -> [order |-> 2]
      [] OTHER     -> [up |-> 0]

Inventory == [u \in Units |->
    IF u = 2 THEN [startup |-> InventoryStartup(u)]
    ELSE [onboot |-> IF u = 1 THEN "1" ELSE "0", startup |-> InventoryStartup(u)]]

\* ------------------------------------------------------------ VirtualUnit
None == [prgm |-> "None", vmid |-> 0, name |-> 0, status |-> Status_UNKNOWN]

VirtualUnit(prgm, vmid, name, status) ==
    [prgm |-> prgm, vmid |-> vmid, name |-> name, status |-> status]

onboot(u) ==
    IF "onboot" \in DOMAIN config[u.vmid] THEN config[u.vmid].onboot = "1" ELSE FALSE

running(u) == u.status = Status_RUNNING

\* mutant: a unit that declares no order sorts as order 0
order_zero(u) ==
    IF "startup" \in DOMAIN config[u.vmid] /\ "order" \in DOMAIN config[u.vmid].startup
    THEN config[u.vmid].startup.order
    ELSE 0

order(u) ==
    IF "startup" \in DOMAIN config[u.vmid] /\ "order" \in DOMAIN config[u.vmid].startup
    THEN config[u.vmid].startup.order
    ELSE InfiniteOrder

\* -1 stands for the None of the source
delay_up(u) ==
    IF "startup" \in DOMAIN config[u.vmid] /\ "up" \in DOMAIN config[u.vmid].startup
    THEN config[u.vmid].startup.up
    ELSE -1

\* mutant: hibernate leaves the unit paused
new_status_hibernate(c) ==
    CASE c \in {Cmd_START, Cmd_RESUME} -> Status_RUNNING
      [] c \in {Cmd_SUSPEND, Cmd_HIBERNATE} -> Status_PAUSED
      [] OTHER -> Status_STOPPED

\* mutant: suspend is skipped only when the unit is paused
old_status_suspend(c) ==
    CASE c \in {Cmd_START, Cmd_RESUME} -> {Status_RUNNING}
      [] c = Cmd_SUSPEND -> {Status_PAUSED}
      [] OTHER -> {Status_STOPPED}

\* the arguments start(), shutdown(), ... pass to __change_state
new_status(c) ==
    CASE c \in {Cmd_START, Cmd_RESUME} -> Status_RUNNING
      [] c = Cmd_SUSPEND -> Status_PAUSED
      [] OTHER -> Status_STOPPED

old_status(c) ==
    CASE c \in {Cmd_START, Cmd_RESUME} -> {Status_RUNNING}
      [] c = Cmd_SUSPEND -> {Status_STOPPED, Status_PAUSED}
      [] OTHER -> {Status_STOPPED}

\* the program the classes qm and pct spawn for a command
program(prgm, c, vmid) ==
    LET verb == CASE c = Cmd_START -> "start"
                  [] c = Cmd_SHUTDOWN -> "shutdown"
                  [] c = Cmd_RESUME -> IF prgm = "pct" THEN "start" ELSE "resume"
                  [] c = Cmd_SUSPEND -> IF prgm = "pct" THEN "shutdown" ELSE "suspend"
                  [] c = Cmd_HIBERNATE -> IF prgm = "pct" THEN "shutdown" ELSE "suspend --todisk 1"
                  [] OTHER -> "stop"
    IN [prgm |-> prgm, verb |-> verb, vmid |-> vmid, returncode |-> -1]

\* no process handle; returncode -1 stands for None (still running)
NoProc == [prgm |-> "None", verb |-> "", vmid |-> 0, returncode |-> -1]

\* what the spawned program leaves behind when it exits with status 0
Effect(p) ==
    CASE p.verb = "start" -> "running"
      [] p.verb = "resume" -> "running"
      [] p.verb = "suspend" -> "paused"
      [] OTHER -> "stopped"

\* ----------------------------------------------------------- enumeration
StatusOf(status) ==
    IF status \in DOMAIN str_status THEN str_status[status] ELSE Status_UNKNOWN

\* qm.status(vmid) returns the process handle, not the token it would print
qm_status(vmid) == "Popen"

ct_list ==
    SelectSeq([u \in 1..NumUnits |-> VirtualUnit(Prgm(u), u, Name(u), StatusOf(real[u]))],
              LAMBDA c : c.prgm = "pct")

vm_list ==
    SelectSeq([u \in 1..NumUnits |-> VirtualUnit(Prgm(u), u, Name(u), StatusOf(qm_status(u)))],
              LAMBDA v : v.prgm = "qm")

virtual_get_all == ct_list \o vm_list

virtual_get_onboot == SelectSeq(virtual_get_all, onboot)

virtual_get_running == SelectSeq(virtual_get_all, running)

RECURSIVE FirstMatch(_, _)
FirstMatch(lst, arg) ==
    IF lst = <<>> THEN None
    ELSE IF Head(lst).vmid = arg \/ Head(lst).name = arg THEN Head(lst)
    ELSE FirstMatch(Tail(lst), arg)

virtual_find(arg) == FirstMatch(ct_list \o vm_list, arg)

\* ---------------------------------------------------------------- planner
\* sorted(l, key=VirtualUnit.order, reverse=...): stable in both directions
RECURSIVE Insert(_, _, _)
Insert(s, u, reverse) ==
    IF s = <<>> THEN <<u>>
    ELSE IF (IF reverse THEN order(Head(s)) >= order(u) ELSE order(Head(s)) <= order(u))
         THEN <<Head(s)>> \o Insert(Tail(s), u, reverse)
         ELSE <<u>> \o s

RECURSIVE sorted(_, _)
sorted(lst, reverse) ==
    IF lst = <<>> THEN <<>>
    ELSE Insert(sorted(SubSeq(lst, 1, Len(lst) - 1), reverse), lst[Len(lst)], reverse)

RECURSIVE FindEach(_)
FindEach(ids) ==
    IF ids = <<>> THEN <<>>
    ELSE LET u == virtual_find(Head(ids))
         IN (IF u = None THEN <<>> ELSE <<u>>) \o FindEach(Tail(ids))

\* "vms is []" compares the identity of vms with a fresh list: never true
IsFreshList(ids) == FALSE

virtual_prepare_start(ids) ==
    sorted(IF IsFreshList(ids) THEN virtual_get_onboot ELSE FindEach(ids), FALSE)

virtual_prepare_shutdown(ids) ==
    sorted(IF IsFreshList(ids) THEN virtual_get_running ELSE FindEach(ids), TRUE)

\* actions[action][0]
prepare(c, ids) ==
    IF c \in {Cmd_START, Cmd_RESUME} THEN virtual_prepare_start(ids)
    ELSE virtual_prepare_shutdown(ids)

\* ------------------------------------------------------------- UnitAction
UnitAction(c, unit) == [cmd |-> c, unit |-> unit]

\* the lambda abort() puts in the queue
Sentinel == [cmd |-> Cmd_UNKNOWN, unit |-> None]

\* mutant: equality that also compares the commands
ActionEq_cmd(a, b) == a.unit.vmid = b.unit.vmid /\ a.cmd = b.cmd

\* UnitAction.__eq__ and VirtualUnit.__eq__ come down to the vmids
ActionEq(a, b) == a.unit.vmid = b.unit.vmid

\* mutant: every pending action of the unit is cancelled
should_cancel_always(a, b) == TRUE

should_cancel(a, b) == a.cmd # b.cmd

\* ----------------------------------------------------------------- Daemon
\* index of the first queued action equal to a, 0 when there is none
RECURSIVE FirstEq(_, _, _)
FirstEq(q, a, i) ==
    IF i > Len(q) THEN 0
    ELSE IF ActionEq(q[i], a) THEN i
    ELSE FirstEq(q, a, i + 1)

Remove(q, i) == SubSeq(q, 1, i - 1) \o SubSeq(q, i + 1, Len(q))

\* mutant: the new action replaces the one it cancels
try_cancel_replace(q, a) ==
    LET i == FirstEq(q, a, 1)
    IN IF i = 0 THEN [queue |-> q, ret |-> FALSE, met |-> "none"]
       ELSE IF should_cancel(q[i], a)
            THEN [queue |-> Remove(q, i), ret |-> FALSE, met |-> "other"]
            ELSE [queue |-> q, ret |-> TRUE, met |-> "same"]

\* mutant: the action the worker is executing counts as pending
try_cancel_running(q, a) ==
    LET i == FirstEq(q, a, 1)
    IN IF i = 0 THEN [queue |-> q, ret |-> ActionEq(action, a), met |-> "none"]
       ELSE IF should_cancel(q[i], a)
            THEN [queue |-> Remove(q, i), ret |-> TRUE, met |-> "other"]
            ELSE [queue |-> q, ret |-> TRUE, met |-> "same"]

\* Daemon.try_cancel: the queue it leaves, what it returns, what it met
try_cancel(q, a) ==
    LET i == FirstEq(q, a, 1)
    IN IF i = 0 THEN [queue |-> q, ret |-> FALSE, met |-> "none"]
       ELSE IF should_cancel(q[i], a)
            THEN [queue |-> Remove(q, i), ret |-> TRUE, met |-> "other"]
            ELSE [queue |-> q, ret |-> TRUE, met |-> "same"]

\* mutant: add puts the action at the head of the queue
add_front(q, a) == <<a>> \o q

\* Daemon.add
add(q, a) == Append(q, a)

\* mutant: the worker keeps the lock when it leaves get
with_exit_keep(holder) == holder

\* leaving a "with self.__lock" block releases the lock
with_exit(holder) == "free"

\* mutant: a notify that wakes nobody
notify_lost(pc, n) == n

\* Condition.notify / notify_all: it reaches the worker if the worker waits
notify(pc, n) == IF pc = "cond_wait" THEN TRUE ELSE n

\* mutant: abort puts the sentinel behind the pending actions
abort_queue_append(q) == Append(q, Sentinel)

\* mutant: abort leaves the queue empty
abort_queue_empty(q) == <<>>

\* Daemon.abort: "self.__queue = [lambda: None]"
abort_queue(q) == <<Sentinel>>

\* Daemon.get, once the queue is not empty
get(q) == [val |-> Head(q), queue |-> Tail(q)]

\* VirtualUnit.__change_state: whether it spawns the external command
change_state_calls(unit, c) == unit.status \notin old_status(c) /\ ~DRY

\* mutant: every run returns the unit's delay
delay_every(a) == delay_up(a.unit)

\* what action() returns: start_delay returns delay_up(), every other run None
delay(a) == IF a.cmd = Cmd_START THEN delay_up(a.unit) ELSE -1

\* Daemon.run after action(): "if delay: self.__sleep(delay)"
sleeps(a) == delay(a) # -1 /\ delay(a) # 0

\* ------------------------------------------------------------ worker thread
RunLoop ==
    /\ wpc = "while"
    /\ wpc' = IF run THEN "get" ELSE "exit"
    /\ UNCHANGED <<envVars, daemonVars, action, proc, timeout, ctl, states, lineVars>>

\* Daemon.get: "with self.__lock" is entered
GetLock ==
    /\ wpc = "get"
    /\ lock = "free"
    /\ lock' = "worker"
    /\ wpc' = "locked"
    /\ UNCHANGED <<envVars, queue, run, event, notified, action, proc, timeout, ctl, states,
                   lineVars>>

\* "while not len(self.__queue): self.__lock.wait()": wait releases the lock
GetWait ==
    /\ wpc = "locked"
    /\ Len(queue) = 0
    /\ lock' = "free"
    /\ notified' = FALSE
    /\ wpc' = "cond_wait"
    /\ UNCHANGED <<envVars, queue, run, event, action, proc, timeout, ctl, states, lineVars>>

\* wait returns: the worker was notified and holds the lock again
GetWake ==
    /\ wpc = "cond_wait"
    /\ notified
    /\ lock = "free"
    /\ lock' = "worker"
    /\ notified' = FALSE
    /\ wpc' = "locked"
    /\ UNCHANGED <<envVars, queue, run, event, action, proc, timeout, ctl, states, lineVars>>

\* the queue is not empty: take its head and leave the with block
Get ==
    /\ wpc = "locked"
    /\ Len(queue) > 0
    /\ action' = get(queue).val
    /\ queue' = get(queue).queue
    /\ lock' = with_exit(lock)
    /\ wpc' = "call"
    /\ UNCHANGED <<envVars, run, event, notified, proc, timeout, ctl, states, lineVars>>

\* action(): the sentinel returns at once; a unit action enters __change_state
Call ==
    /\ wpc = "call"
    /\ IF action = Sentinel
       THEN wpc' = "while" /\ UNCHANGED <<proc, timeout>>
       ELSE IF change_state_calls(action.unit, action.cmd)
            THEN /\ proc' = program(action.unit.prgm, action.cmd, action.unit.vmid)
                 /\ wpc' = "wait"
                 /\ UNCHANGED timeout
            ELSE wpc' = "returned" /\ UNCHANGED <<proc, timeout>>
    /\ UNCHANGED <<envVars, daemonVars, action, ctl, states, lineVars>>

\* proc.wait() returns, whatever the exit status; self.status = new_status
Wait ==
    /\ wpc = "wait"
    /\ \E exit \in {0, 1} :
          /\ real' = IF exit = 0 THEN [real EXCEPT ![proc.vmid] = Effect(proc)] ELSE real
          /\ proc' = [proc EXCEPT !.returncode = exit]
    /\ action' = [action EXCEPT !.unit.status = new_status(action.cmd)]
    /\ wpc' = "returned"
    /\ UNCHANGED <<config, daemonVars, timeout, ctl, states, lineVars>>

\* the run of a unit action returns its delay: sleep, or back to the loop test;
\* nothing reads the action or the process handle after this
Returned ==
    /\ wpc = "returned"
    /\ IF sleeps(action)
       THEN wpc' = "sleep" /\ timeout' = delay(action)
       ELSE wpc' = "while" /\ timeout' = 0
    /\ action' = Sentinel
    /\ proc' = NoProc
    /\ UNCHANGED <<envVars, daemonVars, ctl, states, lineVars>>

\* Event.wait(timeout): time passes while the event is not set
SleepTick ==
    /\ wpc = "sleep"
    /\ ~event
    /\ timeout > 0
    /\ timeout' = timeout - 1
    /\ UNCHANGED <<envVars, daemonVars, wpc, action, proc, ctl, states, lineVars>>

\* Event.wait returns: the time is over or the event is set
SleepReturn ==
    /\ wpc = "sleep"
    /\ event \/ timeout = 0
    /\ wpc' = "while"
    /\ UNCHANGED <<envVars, daemonVars, action, proc, timeout, ctl, states, lineVars>>

Worker == RunLoop \/ GetLock \/ GetWait \/ GetWake \/ Get \/ Call \/ Wait \/ Returned \/ SleepTick \/ SleepReturn

\* ------------------------------------------------------------- control loop
RECURSIVE ArgLists(_)
ArgLists(n) == IF n = 0 THEN {<<>>} ELSE ArgLists(n - 1) \cup [1..n -> Tokens]

Vmids(p) == [i \in 1..Len(p) |-> p[i].vmid]

\* mutant: the loaded state stays in the store
Del_keep(st, name) == st

Del(st, name) == [n \in DOMAIN st \ {name} |-> st[n]]

\* mutant: a save under a name in use overwrites the stored list
save_overwrite(st, name, ids) ==
    [states |-> [n \in DOMAIN st \cup {name} |->
                    IF n = name THEN Vmids(virtual_prepare_shutdown(ids)) ELSE st[n]],
     state |-> Vmids(virtual_prepare_shutdown(ids)),
     printed |-> IF name \in DOMAIN st THEN "already exist" ELSE ""]

\* the save branch of main, given a name: the store, state and message it leaves
save(st, name, ids) ==
    IF name \in DOMAIN st
    THEN [states |-> st, state |-> state, printed |-> "already exist"]
    ELSE [states |-> (name :> Vmids(virtual_prepare_shutdown(ids))) @@ st,
          state |-> Vmids(virtual_prepare_shutdown(ids)),
          printed |-> ""]

\* the command of the actions the line in hand makes
LineCmd(c) == IF c = "load" THEN Cmd_START ELSE str_cmd[c]

\* the for loop is over: a load ends with "del states[args[0]]"
EndLine(c, name) ==
    /\ ctl' = "done"
    /\ states' = IF c = "load" THEN Del(states, name) ELSE states

\* a line naming one of the six unit commands
ReadCommand ==
    /\ ctl = "readline"
    /\ nlines < MaxLines
    /\ \E c \in LineCmds, a \in ArgLists(MaxArgs) :
          /\ cmd' = c
          /\ plan' = prepare(str_cmd[c], a)
          /\ IF plan' = <<>> THEN EndLine(c, sname) ELSE ctl' = "try_cancel" /\ states' = states
    /\ printed' = ""
    /\ found' = <<>>
    /\ added' = <<>>
    /\ nlines' = nlines + 1
    /\ UNCHANGED <<envVars, daemonVars, workerVars, vms, sname, state, l>>

ReadSave ==
    /\ ctl = "readline"
    /\ nlines < MaxLines
    /\ cmd' = "save"
    /\ \E name \in StateNames \cup {""}, a \in ArgLists(MaxArgs) :
          /\ sname' = name
          /\ IF name = "" THEN printed' = "" /\ UNCHANGED <<states, state>>
             ELSE /\ states' = save(states, name, a).states
                  /\ state' = save(states, name, a).state
                  /\ printed' = save(states, name, a).printed
    /\ ctl' = "done"
    /\ found' = <<>>
    /\ added' = <<>>
    /\ nlines' = nlines + 1
    /\ UNCHANGED <<envVars, daemonVars, workerVars, vms, plan, l>>

ReadLoad ==
    /\ ctl = "readline"
    /\ nlines < MaxLines
    /\ cmd' = "load"
    /\ \E name \in StateNames \cup {""} :
          /\ sname' = name
          /\ IF name = "" THEN printed' = "" /\ ctl' = "done" /\ UNCHANGED <<states, state, plan>>
             ELSE IF name \notin DOMAIN states
                  THEN /\ printed' = "does not exist"
                       /\ ctl' = "done"
                       /\ UNCHANGED <<states, state, plan>>
                  ELSE /\ state' = states[name]
                       /\ plan' = virtual_prepare_start(state')
                       /\ printed' = ""
                       /\ IF plan' = <<>> THEN EndLine("load", name)
                          ELSE ctl' = "try_cancel" /\ states' = states
    /\ found' = <<>>
    /\ added' = <<>>
    /\ nlines' = nlines + 1
    /\ UNCHANGED <<envVars, daemonVars, workerVars, vms, l>>

\* list: an argument that is neither "running" nor "onboot" leaves l as it was,
\* and "for a in l" raises when no earlier list line bound it
ReadList ==
    /\ ctl = "readline"
    /\ nlines < MaxLines
    /\ cmd' = "list"
    /\ \E known \in BOOLEAN :
          IF known THEN l' = "bound" /\ ctl' = "done"
          ELSE l' = l /\ ctl' = IF l = "bound" THEN "done" ELSE "raised"
    /\ printed' = ""
    /\ found' = <<>>
    /\ added' = <<>>
    /\ nlines' = nlines + 1
    /\ UNCHANGED <<envVars, daemonVars, workerVars, vms, sname, plan, states, state>>

\* a line with some other first word: no branch of the if chain takes it
ReadOther ==
    /\ ctl = "readline"
    /\ nlines < MaxLines
    /\ cmd' = "other"
    /\ printed' = ""
    /\ found' = <<>>
    /\ added' = <<>>
    /\ ctl' = "done"
    /\ nlines' = nlines + 1
    /\ UNCHANGED <<envVars, daemonVars, workerVars, vms, sname, plan, states, state, l>>

\* the body of the for loop up to daemon.try_cancel(a)
TryCancel ==
    /\ ctl = "try_cancel"
    /\ lock = "free"
    /\ LET r == try_cancel(queue, UnitAction(LineCmd(cmd), Head(plan)))
       IN /\ queue' = r.queue
          /\ found' = Append(found, r.met)
          /\ printed' = IF r.met = "other" THEN "Abort" ELSE printed
          /\ IF r.ret
             THEN /\ plan' = Tail(plan)
                  /\ IF plan' = <<>> THEN EndLine(cmd, sname)
                     ELSE ctl' = "try_cancel" /\ states' = states
             ELSE ctl' = "add" /\ UNCHANGED <<plan, states>>
    /\ UNCHANGED <<envVars, run, event, lock, notified, workerVars, cmd, vms, sname, state, l,
                   added, nlines>>

\* daemon.add(a), and on to the next unit
Add ==
    /\ ctl = "add"
    /\ lock = "free"
    /\ queue' = add(queue, UnitAction(LineCmd(cmd), Head(plan)))
    /\ notified' = notify(wpc, notified)
    /\ added' = Append(added, Head(plan).vmid)
    /\ plan' = Tail(plan)
    /\ IF plan' = <<>> THEN EndLine(cmd, sname) ELSE ctl' = "try_cancel" /\ states' = states
    /\ UNCHANGED <<envVars, run, event, lock, workerVars, cmd, vms, sname, state, l, printed,
                   found, nlines>>

\* back to readline; the next line assigns cmd and args before it reads them,
\* so what the finished line left in them is dropped here; state stays
Continue ==
    /\ ctl = "done"
    /\ ctl' = "readline"
    /\ cmd' = ""
    /\ sname' = ""
    /\ printed' = ""
    /\ found' = <<>>
    /\ added' = <<>>
    /\ UNCHANGED <<envVars, daemonVars, workerVars, vms, plan, states, state, l, nlines>>

\* readline returns "": break
EndOfInput ==
    /\ ctl = "readline"
    /\ ctl' = "abort"
    /\ UNCHANGED <<envVars, daemonVars, workerVars, states, lineVars>>

\* KeyboardInterrupt, taken here while the loop waits in readline
Interrupt ==
    /\ ctl = "readline"
    /\ ctl' = "abort"
    /\ UNCHANGED <<envVars, daemonVars, workerVars, states, lineVars>>

\* Daemon.abort, statement by statement
AbortRun ==
    /\ ctl = "abort"
    /\ run' = FALSE
    /\ ctl' = "abort_queue"
    /\ UNCHANGED <<envVars, queue, event, lock, notified, workerVars, states, lineVars>>

AbortQueue ==
    /\ ctl = "abort_queue"
    /\ lock = "free"
    /\ queue' = abort_queue(queue)
    /\ notified' = notify(wpc, notified)
    /\ ctl' = "abort_wake"
    /\ UNCHANGED <<envVars, run, event, lock, workerVars, states, lineVars>>

AbortWake ==
    /\ ctl = "abort_wake"
    /\ event' = TRUE
    /\ ctl' = "abort_join"
    /\ UNCHANGED <<envVars, queue, run, lock, notified, workerVars, states, lineVars>>

AbortJoin ==
    /\ ctl = "abort_join"
    /\ wpc = "exit"
    /\ queue' = <<>>
    /\ ctl' = "returned"
    /\ UNCHANGED <<envVars, run, event, lock, notified, workerVars, states, lineVars>>

\* daemon.abort() of main
Abort == AbortRun \/ AbortQueue \/ AbortWake \/ AbortJoin

Control ==
    \/ ReadCommand \/ ReadSave \/ ReadLoad \/ ReadList \/ ReadOther
    \/ TryCancel \/ Add \/ Continue \/ EndOfInput \/ Interrupt
    \/ Abort

\* ------------------------------------------------------------ specification
Init ==
    /\ real = [u \in Units |-> "stopped"]
    /\ config = Inventory
    /\ queue = <<>>
    /\ run = TRUE
    /\ event = FALSE
    /\ lock = "free"
    /\ notified = FALSE
    /\ wpc = "while"
    /\ action = Sentinel
    /\ proc = NoProc
    /\ timeout = 0
    /\ ctl = "readline"
    /\ cmd = ""
    /\ vms = <<>>
    /\ sname = ""
    /\ plan = <<>>
    /\ states = <<>>
    /\ state = <<>>
    /\ l = "unbound"
    /\ printed = ""
    /\ found = <<>>
    /\ added = <<>>
    /\ nlines = 0

Next == Worker \/ Control

Spec == Init /\ [][Next]_vars

\* ------------------------------------------------------------------ progress
\* the daemon after a first line that dispatched nothing (an unknown word)
InitLive ==
    /\ real = [u \in Units |-> "stopped"]
    /\ config = Inventory
    /\ queue = <<>>
    /\ run = TRUE
    /\ event = FALSE
    /\ lock = "free"
    /\ notified = FALSE
    /\ wpc = "while"
    /\ action = Sentinel
    /\ proc = NoProc
    /\ timeout = 0
    /\ ctl = "readline"
    /\ cmd = ""
    /\ vms = <<>>
    /\ sname = ""
    /\ plan = <<>>
    /\ states = <<>>
    /\ state = <<>>
    /\ l = "unbound"
    /\ printed = ""
    /\ found = <<>>
    /\ added = <<>>
    /\ nlines = 1

\* the worker thread is scheduled, an external command it waits for exits and
\* the time of a sleep passes; abort, once called, runs on
SpecLive == InitLive /\ [][Next]_vars /\ WF_vars(Worker) /\ WF_vars(Abort)

\* ------------------------------------------------- one action on one unit
\* the worker holds an action a command line could have made: any command,
\* any listed unit, any cached status
InitUnit ==
    /\ real \in [Units -> StatusTokens]
    /\ config = Inventory
    /\ queue = <<>>
    /\ run = TRUE
    /\ event = FALSE
    /\ lock = "free"
    /\ notified = FALSE
    /\ wpc = "call"
    /\ \E c \in DOMAIN str_cmd, u \in Units, st \in DOMAIN str_status \cup {"other"} :
          action = UnitAction(str_cmd[c], VirtualUnit(Prgm(u), u, Name(u), StatusOf(st)))
    /\ proc = NoProc
    /\ timeout = 0
    /\ ctl = "readline"
    /\ cmd = ""
    /\ vms = <<>>
    /\ sname = ""
    /\ plan = <<>>
    /\ states = <<>>
    /\ state = <<>>
    /\ l = "unbound"
    /\ printed = ""
    /\ found = <<>>
    /\ added = <<>>
    /\ nlines = 0

NextUnit == Call \/ Wait \/ Returned \/ SleepTick \/ SleepReturn

SpecUnit == InitUnit /\ [][NextUnit]_vars

\* ------------------------------------------------------------ the planner
\* what "qm config" and "pct config" may report for a unit
Configs ==
    {[onboot |-> "1"], [onboot |-> "1", startup |-> [order |-> 10]],
     [startup |-> [order |-> 2, up |-> MaxUp]], [onboot |-> "0", startup |-> [up |-> MaxUp]]}

InitPlan ==
    /\ real \in {[u \in Units |-> t] : t \in {"running", "paused"}}
    /\ config \in [Units -> Configs]
    /\ vms \in ArgLists(MaxPlanArgs)
    /\ queue = <<>>
    /\ run = TRUE
    /\ event = FALSE
    /\ lock = "free"
    /\ notified = FALSE
    /\ wpc = "while"
    /\ action = Sentinel
    /\ proc = NoProc
    /\ timeout = 0
    /\ ctl = "prepare"
    /\ cmd = ""
    /\ sname = ""
    /\ plan = <<>>
    /\ states = <<>>
    /\ state = <<>>
    /\ l = "unbound"
    /\ printed = ""
    /\ found = <<>>
    /\ added = <<>>
    /\ nlines = 0

\* actions[action][0](args) of a line with one of the six command words
Prepare ==
    /\ ctl = "prepare"
    /\ \E c \in DOMAIN str_cmd :
          /\ cmd' = c
          /\ plan' = prepare(str_cmd[c], vms)
    /\ ctl' = "prepared"
    /\ UNCHANGED <<envVars, daemonVars, workerVars, vms, sname, states, state, l, printed,
                   found, added, nlines>>

\* virtual_prepare_shutdown(args[1:]) of a save line
PrepareSave ==
    /\ ctl = "prepare"
    /\ cmd' = "save"
    /\ plan' = virtual_prepare_shutdown(vms)
    /\ ctl' = "prepared"
    /\ UNCHANGED <<envVars, daemonVars, workerVars, vms, sname, states, state, l, printed,
                   found, added, nlines>>

NextPlan == Prepare \/ PrepareSave

SpecPlan == InitPlan /\ [][NextPlan]_vars

\* ================================================================= claims
\* vmids of the queued actions, in queue order
QueueVmids == [i \in 1..Len(queue) |-> queue[i].unit.vmid]

\* the pending actions of unit v
Pending(q, v) == SelectSeq(q, LAMBDA a : a.unit.vmid = v)

\* the requests of the line in hand: the control loop's own steps
TryCancelStep == ctl = "try_cancel" /\ found' # found

\* C1: in every reachable state of the control loop interleaved with the
\* worker, the queue holds at most one action per unit identifier.
C1_OnePendingPerUnit ==
    \A i, j \in 1..Len(queue) : i # j => queue[i].unit.vmid # queue[j].unit.vmid

\* the first line named one unit twice: the second request met the first
\* one's action, and the unit is pending once
C1_Witness ==
    /\ ctl = "done"
    /\ nlines = 1
    /\ found = <<"none", "same">>
    /\ Len(queue) = 1

\* C2: a request with command C on unit U, dispatched while an action with
\* the same command C on U is pending, leaves the queue as it was, with one
\* pending action for U, and appends nothing.
C2_SameCommandKeepsQueue ==
    [][(/\ TryCancelStep
        /\ Pending(queue, Head(plan).vmid) # <<>>
        /\ Pending(queue, Head(plan).vmid)[1].cmd = LineCmd(cmd))
       => (/\ queue' = queue
           /\ Len(Pending(queue', Head(plan).vmid)) = 1
           /\ ctl' # "add")]_vars

\* a request met a pending action of its own command while another unit
\* was pending too
C2_Witness ==
    /\ found # <<>>
    /\ found[Len(found)] = "same"
    /\ added = <<>>
    /\ Len(queue) >= 2

\* C3: a request with command C on unit U, dispatched while an action with
\* another command on U is pending, removes that action and appends nothing:
\* no action for U is pending afterwards and the other entries keep their order.
C3_OtherCommandCancels ==
    [][(/\ TryCancelStep
        /\ Pending(queue, Head(plan).vmid) # <<>>
        /\ Pending(queue, Head(plan).vmid)[1].cmd # LineCmd(cmd))
       => (/\ queue' = SelectSeq(queue, LAMBDA a : a.unit.vmid # Head(plan).vmid)
           /\ Len(queue') = Len(queue) - 1
           /\ Pending(queue', Head(plan).vmid) = <<>>
           /\ ctl' # "add")]_vars

\* a one-unit line cancelled a pending action and left two other units
\* pending
C3_Witness ==
    /\ ctl = "done"
    /\ found = <<"other">>
    /\ added = <<>>
    /\ printed = "Abort"
    /\ Len(queue) = 2

\* the no-op sets and targets of the six commands, as the claims give them
ClaimNoOp(c) ==
    CASE c = Cmd_START -> {Status_RUNNING}
      [] c = Cmd_SHUTDOWN -> {Status_STOPPED}
      [] c = Cmd_RESUME -> {Status_RUNNING}
      [] c = Cmd_SUSPEND -> {Status_STOPPED, Status_PAUSED}
      [] c = Cmd_HIBERNATE -> {Status_STOPPED}
      [] c = Cmd_STOP -> {Status_STOPPED}

ClaimTarget(c) ==
    CASE c = Cmd_START -> Status_RUNNING
      [] c = Cmd_SHUTDOWN -> Status_STOPPED
      [] c = Cmd_RESUME -> Status_RUNNING
      [] c = Cmd_SUSPEND -> Status_PAUSED
      [] c = Cmd_HIBERNATE -> Status_STOPPED
      [] c = Cmd_STOP -> Status_STOPPED

\* C4: executing a command on a unit whose cached status is in the command's
\* no-op set spawns no external command and leaves the status, and the
\* external world, as they were.
C4_NoOpIssuesNoCall ==
    [][(/\ wpc = "call"
        /\ action # Sentinel
        /\ action.unit.status \in ClaimNoOp(action.cmd))
       => (/\ wpc' = "returned"
           /\ proc' = NoProc
           /\ action' = action
           /\ real' = real)]_vars

\* suspend returned on a stopped unit without a process handle
C4_Witness ==
    /\ wpc = "returned"
    /\ action.cmd = Cmd_SUSPEND
    /\ action.unit.status = Status_STOPPED
    /\ proc = NoProc

\* C5: executing a command on a unit whose cached status is outside the
\* no-op set (Unknown always is) spawns one external command for that unit,
\* waits for it, and then sets the status to the command's target whatever
\* the exit status; a status never becomes Unknown by a transition.
C5_TransitionSetsTarget ==
    /\ [](proc # NoProc => /\ proc.vmid = action.unit.vmid
                           /\ proc.prgm = action.unit.prgm
                           /\ (wpc = "wait" <=> proc.returncode = -1))
    /\ [](wpc = "wait" => proc # NoProc)
    /\ [][(/\ wpc = "call"
           /\ action # Sentinel
           /\ action.unit.status \notin ClaimNoOp(action.cmd))
          => (/\ wpc' = "wait"
              /\ proc' # NoProc
              /\ action' = action)]_vars
    /\ [][wpc = "wait"
          => (/\ wpc' = "returned"
              /\ proc'.returncode \in {0, 1}
              /\ action'.unit.status = ClaimTarget(action.cmd)
              /\ action'.unit.status # Status_UNKNOWN
              /\ action'.cmd = action.cmd
              /\ action'.unit.vmid = action.unit.vmid)]_vars
    /\ [](action.unit.status = Status_UNKNOWN /\ action # Sentinel => wpc \in {"call", "wait"})

\* a suspend whose external command failed left the unit paused
C5_Witness ==
    /\ wpc = "returned"
    /\ action.cmd = Cmd_SUSPEND
    /\ action.unit.status = Status_PAUSED
    /\ proc.returncode = 1
    /\ real[action.unit.vmid] = "other"

\* --------------------------------------------------------------- planner
\* the unit a token names, 0 when it names none
UnitOf(tok) ==
    IF tok \in Units THEN tok
    ELSE IF \E u \in Units : Name(u) = tok THEN CHOOSE u \in Units : Name(u) = tok
    ELSE 0

\* how often unit u is requested by the list ids
Requested(ids, u) == Cardinality({i \in 1..Len(ids) : UnitOf(ids[i]) = u})

Planned(p, u) == Cardinality({i \in 1..Len(p) : p[i].vmid = u})

DeclaresOrder(u) ==
    "startup" \in DOMAIN config[u] /\ "order" \in DOMAIN config[u].startup

DeclaredOrder(u) == config[u].startup.order

\* ascending declared order, units that declare none last
Ascending(p) ==
    \A i, j \in 1..Len(p) : i < j =>
        \/ ~DeclaresOrder(p[j].vmid)
        \/ /\ DeclaresOrder(p[i].vmid)
           /\ DeclaredOrder(p[i].vmid) <= DeclaredOrder(p[j].vmid)

\* descending declared order, units that declare none first
Descending(p) ==
    \A i, j \in 1..Len(p) : i < j =>
        \/ ~DeclaresOrder(p[i].vmid)
        \/ /\ DeclaresOrder(p[j].vmid)
           /\ DeclaredOrder(p[i].vmid) >= DeclaredOrder(p[j].vmid)

\* units 1, 2, 3 declare the orders 10, 2 and none, and each is requested once
ExampleOrders ==
    /\ Len(vms) = 3
    /\ \A u \in {1, 2, 3} : Requested(vms, u) = 1
    /\ DeclaresOrder(1) /\ DeclaredOrder(1) = 10
    /\ DeclaresOrder(2) /\ DeclaredOrder(2) = 2
    /\ ~DeclaresOrder(3)

StartWords == {"start", "resume"}

\* C6: a command given with no unit identifiers operates on its default
\* set: start and resume on every unit whose onboot is true, the other
\* commands and save on every unit whose status is Running.
C6_DefaultSet ==
    (ctl = "prepared" /\ vms = <<>>)
    => \A u \in Units :
          Planned(plan, u) =
             IF cmd \in StartWords THEN Planned(virtual_get_onboot, u)
             ELSE Planned(virtual_get_running, u)

\* C7: the plan holds exactly the units the identifiers resolve to, each as
\* often as requested, ascending by declared order with undeclared last for
\* start and resume, descending with undeclared first for the other commands
\* and save; orders {1:10, 2:2, 3:none} give [2, 1, 3] and [3, 1, 2].
C7_PlanSorted ==
    ctl = "prepared" =>
        /\ \A u \in Units : Planned(plan, u) = Requested(vms, u)
        /\ Len(plan) = Cardinality({i \in 1..Len(vms) : UnitOf(vms[i]) # 0})
        /\ \A i \in 1..Len(plan) : plan[i].vmid \in Units
        /\ IF cmd \in StartWords THEN Ascending(plan) ELSE Descending(plan)
        /\ ExampleOrders =>
              Vmids(plan) = IF cmd \in StartWords THEN <<2, 1, 3>> ELSE <<3, 1, 2>>

\* the shutdown plan of the example, requested in another order and by name
C7_Witness ==
    /\ ctl = "prepared"
    /\ cmd = "shutdown"
    /\ ExampleOrders
    /\ vms = <<2, 3, Name(1)>>
    /\ Vmids(plan) = <<3, 1, 2>>

\* ----------------------------------------------------------- state store
\* a load that found its name has dispatched every request
LoadDone == ctl = "done" /\ cmd = "load" /\ sname # "" /\ printed # "does not exist"

\* the entries of p at the places where f is "none"
RECURSIVE WhereNone(_, _)
WhereNone(p, f) ==
    IF p = <<>> \/ f = <<>> THEN <<>>
    ELSE (IF Head(f) = "none" THEN <<Head(p)>> ELSE <<>>) \o WhereNone(Tail(p), Tail(f))

\* C8 as stated: whatever the queue holds, load appends one Start action per
\* resolvable identifier of the saved list, in ascending order(), and then
\* removes the name.
C8_LoadEnqueuesAll ==
    LoadDone =>
        /\ \A u \in Units : Planned(virtual_prepare_start(state), u) > 0
                                => Cardinality({i \in 1..Len(added) : added[i] = u}) = 1
        /\ Len(added) = Cardinality({u \in Units : Planned(virtual_prepare_start(state), u) > 0})
        /\ sname \notin DOMAIN states

\* C8 amended: load dispatches one Start request per entry of the start plan
\* of the saved list, in plan order; a Start action is appended, at the tail,
\* for exactly the requests that met no pending action of their unit, and
\* the name is removed afterwards.
C8_LoadThroughCoalescing ==
    /\ [](LoadDone =>
            /\ Len(found) = Len(virtual_prepare_start(state))
            /\ added = WhereNone(Vmids(virtual_prepare_start(state)), found)
            /\ Ascending(virtual_prepare_start(state))
            /\ sname \notin DOMAIN states)
    /\ [][(ctl = "add" /\ cmd = "load" /\ added' # added)
          => (/\ queue' = Append(queue, UnitAction(Cmd_START, Head(plan)))
              /\ added' = Append(added, Head(plan).vmid))]_vars

\* a load of two units: the first had another command pending, which was
\* removed; for the second a Start was appended
C8_Witness ==
    /\ LoadDone
    /\ found = <<"other", "none">>
    /\ Len(added) = 1
    /\ printed = "Abort"
    /\ queue # <<>>
    /\ queue[Len(queue)].cmd = Cmd_START
    /\ queue[Len(queue)].unit.vmid = added[1]

\* C9: save under a name already in the store reports the duplicate and
\* changes neither the store nor the queue.
C9_DuplicateSave ==
    [][(ctl = "readline" /\ cmd' = "save" /\ sname' \in DOMAIN states)
       => (/\ printed' = "already exist"
           /\ states' = states
           /\ queue' = queue
           /\ ctl' = "done")]_vars

\* a duplicate save was reported while two names are stored
C9_Witness ==
    /\ ctl = "done"
    /\ cmd = "save"
    /\ printed = "already exist"
    /\ Cardinality(DOMAIN states) = 2

\* C10: load of a name that is not in the store reports it, appends nothing
\* and leaves queue and store alone; a load that found its name has removed
\* it when it is over, so a second load of it is of a missing name.
C10_MissingLoad ==
    /\ [][(ctl = "readline" /\ cmd' = "load" /\ sname' # "" /\ sname' \notin DOMAIN states)
          => (/\ printed' = "does not exist"
              /\ states' = states
              /\ queue' = queue
              /\ added' = <<>>
              /\ ctl' = "done")]_vars
    /\ [](ctl = "done" /\ cmd = "load" /\ sname # "" => sname \notin DOMAIN states)
    /\ [](cmd = "load" /\ printed = "does not exist" => added = <<>> /\ ctl = "done")

\* save, load, load: the third line is a load of a missing name, after the
\* second emptied the store; the Start actions of the second are pending
C10_Witness ==
    /\ ctl = "done"
    /\ cmd = "load"
    /\ printed = "does not exist"
    /\ nlines = 3
    /\ states = <<>>
    /\ Len(state) = 2
    /\ QueueVmids = Vmids(virtual_prepare_start(state))
    /\ \A i \in 1..Len(queue) : queue[i].cmd = Cmd_START

\* -------------------------------------------------------- error handling
\* C11: no failure raised while a command line is dispatched leaves the
\* control loop: the loop never stops in a raised exception, it goes on to
\* read the next line.
C11_NoFailureLeavesLoop == ctl # "raised"

\* ------------------------------------------------------------- shutdown
AbortPositions == {"abort", "abort_queue", "abort_wake", "abort_join"}

\* C12: once Daemon.abort is invoked the worker terminates and abort
\* returns, wherever the worker is; the worker finishes the action in flight
\* and, once woken, leaves a start-up delay without waiting it out.
C12_AbortTerminates ==
    /\ (ctl = "abort") ~> (ctl = "returned" /\ wpc = "exit")
    /\ [][(wpc = "sleep" /\ event /\ wpc' # wpc) => wpc' = "while"]_vars
    /\ [][(wpc = "sleep" /\ event) => timeout' = timeout]_vars
    /\ [][(ctl \in AbortPositions /\ wpc = "wait" /\ wpc' # wpc) => wpc' = "returned"]_vars

\* abort returned after it woke the worker from a start-up delay that had
\* time left
C12_Witness ==
    /\ ctl = "returned"
    /\ wpc = "exit"
    /\ event
    /\ timeout > 0

\* ---------------------------------------------------------- start-up delay
\* the up=N a unit's startup configuration declares, 0 when it declares none
DeclaredUp(v) ==
    IF "startup" \in DOMAIN config[v] /\ "up" \in DOMAIN config[v].startup
    THEN config[v].startup.up
    ELSE 0

\* C13: after a Start action on a unit that declares up=N, N > 0, the worker
\* sleeps and goes on to the next dequeue only when N time units have passed
\* or shutdown has been invoked; an action of another command, or a Start on
\* a unit without a positive up, is followed by no delay.
C13_StartDelay ==
    /\ [][(wpc = "returned" /\ wpc' # wpc)
          => IF action.cmd = Cmd_START /\ DeclaredUp(action.unit.vmid) > 0
             THEN wpc' = "sleep" /\ timeout' = DeclaredUp(action.unit.vmid)
             ELSE wpc' = "while"]_vars
    /\ [][(wpc = "sleep" /\ timeout' # timeout) => (timeout' = timeout - 1 /\ wpc' = "sleep")]_vars
    /\ [][(wpc = "sleep" /\ wpc' # wpc)
          => (wpc' = "while" /\ queue' = queue /\ (timeout = 0 \/ event))]_vars
    /\ [](event => ctl \in {"abort_join", "returned"})
    /\ [](wpc = "sleep" => lock = "free" /\ timeout \in 0..MaxUp)

\* the worker is in the delay after a Start, the time has passed without a
\* shutdown, and the next action is still pending
C13_Witness ==
    /\ wpc = "sleep"
    /\ timeout = 0
    /\ ~event
    /\ queue # <<>>
    /\ run

\* ------------------------------------------------------- action in flight
\* the worker has dequeued an action of unit v and has not returned from it
InFlight(v) == wpc \in {"call", "wait", "returned"} /\ action.unit.vmid = v

\* a step of the control loop
ControlStep == ctl' # ctl \/ found' # found \/ added' # added

\* C14: an action the worker has dequeued is not cancelled or altered by a
\* later request: a request for unit U dispatched while U's action is in
\* flight and none is pending finds nothing to cancel (try_cancel returns
\* false), its action is appended, and no step of the control loop changes
\* the worker's action, its process or its position.
C14_InFlightUntouched ==
    /\ [][(/\ TryCancelStep
           /\ InFlight(Head(plan).vmid)
           /\ Pending(queue, Head(plan).vmid) = <<>>)
          => (/\ found' = Append(found, "none")
              /\ queue' = queue
              /\ ctl' = "add"
              /\ plan' = plan)]_vars
    /\ [][(ctl = "add" /\ ControlStep)
          => (/\ queue' = Append(queue, UnitAction(LineCmd(cmd), Head(plan)))
              /\ added' = Append(added, Head(plan).vmid))]_vars
    /\ [][ControlStep => UNCHANGED <<wpc, action, proc, timeout>>]_vars
    /\ [][(wpc = "wait" /\ wpc' # wpc)
          => (/\ wpc' = "returned"
              /\ action'.cmd = action.cmd
              /\ action'.unit.vmid = action.unit.vmid)]_vars

\* a line requested a stop of the unit whose Start the worker is waiting
\* for: nothing was cancelled, and the Stop is pending behind it
C14_Witness ==
    /\ ctl = "done"
    /\ cmd = "stop"
    /\ wpc = "wait"
    /\ action.cmd = Cmd_START
    /\ proc.returncode = -1
    /\ found = <<"none">>
    /\ added = <<action.unit.vmid>>
    /\ Len(queue) = 1
    /\ queue[1].cmd = Cmd_STOP
    /\ queue[1].unit.vmid = action.unit.vmid

\* ------------------------------------------------------------ enumeration
\* the image of a status token, as the claim gives it
ClaimStatus(tok) ==
    CASE tok = "stopped" -> Status_STOPPED
      [] tok = "running" -> Status_RUNNING
      [] tok = "paused" -> Status_PAUSED
      [] OTHER -> Status_UNKNOWN

\* C15: the status of every enumerated unit, of either kind, is the image of
\* the status token the external program reports for that unit.
C15_StatusOfToken ==
    ctl = "prepared" =>
        \A i \in 1..Len(plan) : plan[i].status = ClaimStatus(real[plan[i].vmid])

\* -------------------------------------------------------- order of execution
\* the last k entries of a sequence
Last(s, k) == SubSeq(s, Len(s) - k + 1, Len(s))

\* q2 is q without its entry i
Without(q, i, q2) == q2 = SubSeq(q, 1, i - 1) \o SubSeq(q, i + 1, Len(q))

\* the vmids a line has appended so far, as a plan
AddedPlan == [i \in 1..Len(added) |-> [vmid |-> added[i]]]

\* C16: the worker executes one action at a time, in FIFO order.  It holds no
\* action and no process when it goes to dequeue; it takes the head of the
\* queue; every other change of the queue appends at the tail or removes one
\* entry (or is abort's), so the entries keep their order; and what is left
\* of the actions a line appended is a tail of them at the tail of the queue,
\* with nothing older in front once one of them is gone: a start plan is
\* executed in ascending order(), a shutdown plan in descending order().
C16_OneAtATimeFifo ==
    /\ [](wpc \notin {"call", "wait", "returned"} => action = Sentinel /\ proc = NoProc)
    /\ [](proc # NoProc => proc.vmid = action.unit.vmid)
    /\ [][(wpc # "call" /\ wpc' = "call")
          => (/\ queue # <<>>
              /\ action' = queue[1]
              /\ Without(queue, 1, queue')
              /\ action = Sentinel
              /\ proc = NoProc)]_vars
    /\ [][(queue' # queue /\ wpc' = wpc /\ ctl \notin AbortPositions)
          => \/ Len(queue') = Len(queue) + 1 /\ SubSeq(queue', 1, Len(queue)) = queue
             \/ \E i \in 1..Len(queue) : Without(queue, i, queue')]_vars
    /\ [](ctl \in {"try_cancel", "add", "done"} =>
            /\ \E k \in 0..Len(added) :
                  /\ k <= Len(queue)
                  /\ Vmids([i \in 1..k |-> Last(queue, k)[i].unit]) = Last(added, k)
                  /\ k < Len(added) => k = Len(queue)
            /\ IF cmd \in StartWords \cup {"load"}
               THEN Ascending(AddedPlan) ELSE Descending(AddedPlan))

\* "start 1 2": the plan is 2 (order 2), then 1 (order 10); both were
\* appended, the worker waits for the start of 2 and 1 is pending
C16_Witness ==
    /\ ctl = "done"
    /\ cmd = "start"
    /\ added = <<2, 1>>
    /\ wpc = "wait"
    /\ action.cmd = Cmd_START
    /\ action.unit.vmid = 2
    /\ QueueVmids = <<1>>

\* ------------------------------------------------------ after shutdown
\* the worker dequeues
Dequeues == wpc # "call" /\ wpc' = "call"

\* C17 as stated: after abort returns the queue is empty and nothing is
\* executed; the actions pending when abort replaced the queue are discarded
\* unexecuted; and once abort has begun (run is false) the worker dequeues
\* no action any more, so only the one it had already dequeued completes.
C17_OnlyInFlightCompletes ==
    /\ [](ctl = "returned" => queue = <<>> /\ wpc = "exit")
    /\ [][(ctl = "abort_queue" /\ ctl' # ctl) => queue' = <<Sentinel>>]_vars
    /\ [][(~run /\ Dequeues) => action' = Sentinel]_vars

\* C17 amended: after abort returns the queue is empty, the worker has left
\* its loop and holds no action; abort replaces the queue by the sentinel
\* alone, and after that the worker dequeues nothing but the sentinel; once
\* run is false the worker leaves the loop at its next test, so after that
\* it executes at most one action: the one in flight, or one it dequeues
\* before abort replaces the queue.
C17_AbortDiscards ==
    /\ [](ctl = "returned" =>
            queue = <<>> /\ wpc = "exit" /\ action = Sentinel /\ proc = NoProc)
    /\ [](wpc = "exit" => ~run)
    /\ [][wpc = "exit" => UNCHANGED <<wpc, action, proc, real>>]_vars
    /\ [][(ctl = "abort_queue" /\ ctl' # ctl) => queue' = <<Sentinel>>]_vars
    /\ [][(ctl \in {"abort_wake", "abort_join", "returned"} /\ Dequeues)
          => action' = Sentinel]_vars
    /\ [][(~run /\ wpc = "while" /\ wpc' # wpc) => wpc' = "exit"]_vars

\* abort has replaced the queue and waits in join while the action the
\* worker dequeued before is still in flight
C17_Witness ==
    /\ ctl = "abort_join"
    /\ queue = <<Sentinel>>
    /\ ~run
    /\ wpc = "wait"
    /\ action # Sentinel
    /\ proc.returncode = -1

\* ------------------------------------------------------------- the lock
\* a unit transition, or the delay after a start, is in progress
InProgress == wpc \in {"wait", "sleep"}

\* C18: the worker holds the queue lock only while it dequeues: whenever a
\* unit transition or a start-up delay is in progress the lock is free, and
\* the try_cancel or add the control loop has reached can be taken at once.
C18_LockOnlyWhileDequeuing ==
    /\ lock = "worker" <=> wpc = "locked"
    /\ wpc \in {"call", "wait", "returned", "sleep"} => lock = "free"
    /\ (InProgress /\ ctl = "try_cancel") => ENABLED TryCancel
    /\ (InProgress /\ ctl = "add") => ENABLED Add

\* the worker waits for an external command while the control loop is about
\* to cancel a pending action of another unit
C18_Witness ==
    /\ wpc = "wait"
    /\ proc.returncode = -1
    /\ ctl = "try_cancel"
    /\ lock = "free"
    /\ Pending(queue, Head(plan).vmid) # <<>>
    /\ Pending(queue, Head(plan).vmid)[1].cmd # LineCmd(cmd)
    /\ Head(plan).vmid # action.unit.vmid

\* ------------------------------------------------------ the cached status
\* C19: the cached status an action of unit U is executed with reflects
\* every transition the worker has completed on U: when the worker completes
\* a transition on U, an action of U that is pending (and will be executed
\* after it) carries the status the transition has set, so a Shutdown that
\* was dispatched while U's Start was in flight is not skipped as a no-op.
C19_CachedStatusCurrent ==
    [][(wpc = "wait" /\ wpc' = "returned")
       => \A i \in 1..Len(queue') :
             queue'[i].unit.vmid = action.unit.vmid
                => queue'[i].unit.status = ClaimTarget(action.cmd)]_vars

\* ---------------------------------------------------------------- progress
ShutdownInvoked == ctl \in AbortPositions \cup {"returned"}

\* the commands of the actions the lines make
LineActions == {LineCmd(w) : w \in LineCmds \cup {"load"}}

\* an action with command c on unit v is pending
IsPending(v, c) == \E i \in 1..Len(queue) : queue[i].unit.vmid = v /\ queue[i].cmd = c

\* the worker has just dequeued the action with command c on unit v
Dequeued(v, c) == wpc = "call" /\ action.unit.vmid = v /\ action.cmd = c

\* a contradictory request has just removed the pending action of unit v
Cancelled(v) ==
    /\ found # <<>>
    /\ found[Len(found)] = "other"
    /\ Pending(queue, v) = <<>>

\* C20: with the worker scheduled fairly, external commands completing and
\* no shutdown, every appended action that no contradictory request removes
\* is eventually dequeued and executed, once: dequeuing removes it from the
\* queue and the call follows; and the worker never stays blocked while the
\* queue is not empty, because whoever fills the queue notifies it.
C20_EveryPendingExecuted ==
    /\ \A v \in Units : \A c \in LineActions :
          IsPending(v, c) ~> (Dequeued(v, c) \/ Cancelled(v) \/ ShutdownInvoked)
    /\ \A v \in Units : \A c \in LineActions :
          Dequeued(v, c) ~> (wpc = "returned" /\ action.unit.vmid = v /\ action.cmd = c)
    /\ (wpc = "cond_wait" /\ queue # <<>>) ~> (wpc # "cond_wait")
    /\ [](wpc = "cond_wait" /\ queue # <<>> => notified)
    /\ [][Dequeues => (action' = queue[1] /\ Without(queue, 1, queue'))]_vars
    /\ [][(wpc = "call" /\ wpc' # wpc /\ action # Sentinel)
          => (wpc' \in {"wait", "returned"} /\ action' = action)]_vars

\* the worker was blocked on the empty queue; an add has filled the queue
\* and notified it
C20_Witness ==
    /\ wpc = "cond_wait"
    /\ notified
    /\ queue # <<>>
    /\ run
    /\ ~ShutdownInvoked

====
